---- MODULE Spec2Model ----
(***************************************************************************)
(* Model of the CallkaroMCP server: the socket Connection Registry         *)
(* (WSServer), the Audio Accumulator (AudioProcessor), the token store     *)
(* (AuthService), the telephony adapter (TwilioService), the summarizer    *)
(* (SummarizationService) and the two tool dispatchers (createMCPServer in *)
(* mcpServer.ts and the setRequestHandler registrations in tools.ts).      *)
(***************************************************************************)
EXTENDS Integers, Sequences, FiniteSets, TLC

\* ------------------------------------------------------------------------
\* Bounds of the model
\* ------------------------------------------------------------------------
MaxConns == 2
MaxFrames == 3
MaxPasses == 2
MaxHandles == 2

\* ------------------------------------------------------------------------
\* Program constants (AudioProcessor.ts)
\* ------------------------------------------------------------------------
sampleRate == 8000
channels == 1
bitDepth == 16
ThresholdSeconds == 2

ConnIds == 1..MaxConns
PassIds == 1..MaxPasses
Streams == {"CA1", "CA2"}
Languages == {"en-US", "es-ES"}
\* number of base64 characters (padding excluded) of a media payload; 0 is
\* the empty string
PayloadChars == {0, 10667, 21334}

VARIABLES
    sockState,       \* ws.readyState of every socket ever accepted
    connections,     \* WSServer.connections (keys)
    streamHandlers,  \* WSServer.streamHandlers (keys)
    audioBuffers,    \* AudioProcessor.audioBuffers
    handles,         \* per stream: the language captured by each handle that
                     \* processAudioStream returned, in order
    passes,          \* processAudioBuffer invocations that are suspended
    framesIn,        \* number of media chunks appended so far
    fed,             \* bytes appended to each stream's buffer so far
    invocations,     \* per stream: the transcribeAudio calls so far, each
                     \* with the value of fed when its pass began
    writeFailed,     \* streams with a pass whose scratch write was rejected
    emitted,         \* per stream: results handed to a handle's
                     \* transcription callback so far
    sent,            \* the messages the last step sent to sockets (ws.send)
    notified,        \* the stream handlers the last step called with a
                     \* message made by the registry, and that message
    marked,          \* the stream whose handler the last step called with
                     \* a 'mark' frame, if any
    scratchLeft,     \* the streams with a scratch file of a pass that has
                     \* ended
    tokenStore,      \* auth.ts tokenStore: token -> user
    recordings,      \* the provider's recordings of each call, latest first
    providerCalls,   \* the provider's record of each call it was asked for
    invocation,      \* the tool invocation handled last
    outcome,         \* what its handler returned or threw
    adapterCalls,    \* the service methods that handler called
    providerRequests,\* the provider API requests that handler caused
    audioProcessor,  \* TranscriptionService: constructed with an HTTP server,
                     \* so that it has a socket server and an AudioProcessor
    activeStreams,   \* TranscriptionService.activeStreams: the keys
    batches          \* the audio URLs performTranscription was called with

streamVars == <<sockState, connections, streamHandlers, audioBuffers, handles,
                passes, framesIn, fed, invocations, writeFailed, emitted,
                sent, notified, marked, scratchLeft>>

toolVars == <<tokenStore, recordings, providerCalls, invocation, outcome,
              adapterCalls, providerRequests>>

transcribeVars == <<audioProcessor, activeStreams, batches>>

vars == <<streamVars, toolVars, transcribeVars>>

\* ------------------------------------------------------------------------
\* Helpers
\* ------------------------------------------------------------------------
\* the value of a property that is not set
Undefined == "undefined"

NoBuffer == [has |-> FALSE, chunks |-> <<>>]
EmptyBuffer == [has |-> TRUE, chunks |-> <<>>]
IdlePass == [pc |-> "idle", streamSid |-> "CA1", language |-> "en-US",
             data |-> <<>>, sameArray |-> FALSE, trigger |-> 0,
             callback |-> FALSE]

\* Buffer.from(payload, 'base64').length
Base64ByteLength(chars) == (chars * 3) \div 4

\* the estimate of handleAudioChunk, compared without division:
\* (buffer.length * audioData.length) / (sampleRate * channels * (bitDepth / 8)) >= 2.0
ThresholdReached(chunks, audioDataLength) ==
    Len(chunks) * audioDataLength
        >= ThresholdSeconds * (sampleRate * channels * (bitDepth \div 8))

RECURSIVE TotalBytes(_)
TotalBytes(chunks) ==
    IF chunks = <<>> THEN 0
    ELSE Head(chunks).bytes + TotalBytes(Tail(chunks))

FreePass == CHOOSE p \in PassIds :
                /\ passes[p].pc = "idle"
                /\ \A q \in PassIds : passes[q].pc = "idle" => p <= q
HasFreePass == \E p \in PassIds : passes[p].pc = "idle"

\* a processAudioBuffer call holds a reference to the array it read from the
\* table; replacing or deleting the table entry leaves it with the old array
Detach(ps, s) ==
    [p \in PassIds |->
        IF ps[p].pc # "idle" /\ ps[p].streamSid = s
        THEN [ps[p] EXCEPT !.sameArray = FALSE]
        ELSE ps[p]]

\* processAudioBuffer up to its first await: the passes after the call;
\* callback tells whether the caller passed one
processAudioBuffer(ps, bufs, s, language, callback, offset) ==
    IF ~bufs[s].has \/ Len(bufs[s].chunks) = 0
    THEN ps
    ELSE [ps EXCEPT ![FreePass] =
            [pc |-> "write", streamSid |-> s, language |-> language,
             data |-> bufs[s].chunks, sameArray |-> TRUE, trigger |-> offset,
             callback |-> callback]]

RECURSIVE SumLen(_, _)
SumLen(f, S) ==
    IF S = {} THEN 0
    ELSE LET x == CHOOSE y \in S : TRUE IN Len(f[x]) + SumLen(f, S \ {x})
HandlesReturned == SumLen(handles, Streams)

\* number of 'close' events handled so far; every buffered chunk is tagged
\* with the value at the time it was appended
ClosedSoFar == Cardinality({c \in ConnIds : sockState[c] = "closed"})

\* broadcast without the readyState test: every socket in the table is sent to
broadcastToAll(conns) == conns

\* WSServer.broadcast: sends to the open sockets, drops the others
broadcast(conns) == {c \in conns : sockState[c] = "open"}

\* a WebSocketMessage; a property that is not set is Undefined
WebSocketMessage(type, error, id, streamSid) ==
    [type |-> type, error |-> error, id |-> id, streamSid |-> streamSid]

\* WSServer.broadcast: what it passes to ws.send, and for which sockets
broadcastSent(conns, streamSid, message) ==
    {[to |-> c, message |-> [message EXCEPT !.streamSid = streamSid]] :
        c \in broadcast(conns)}

\* WSServer.send: what it passes to ws.send, and for which socket
send(conns, connectionId, message) ==
    IF connectionId \in conns /\ sockState[connectionId] = "open"
    THEN {[to |-> connectionId, message |-> message]}
    ELSE {}

\* a step in which the registry sends nothing and calls no handler itself
Quiet == sent' = {} /\ notified' = {} /\ marked' = Undefined

\* ------------------------------------------------------------------------
\* Initial state
\* ------------------------------------------------------------------------
StreamInit ==
    /\ sockState = [c \in ConnIds |-> "none"]
    /\ connections = {}
    /\ streamHandlers = {}
    /\ audioBuffers = [s \in Streams |-> NoBuffer]
    /\ handles = [s \in Streams |-> <<>>]
    /\ passes = [p \in PassIds |-> IdlePass]
    /\ framesIn = 0
    /\ fed = [s \in Streams |-> 0]
    /\ invocations = [s \in Streams |-> <<>>]
    /\ writeFailed = {}
    /\ emitted = [s \in Streams |-> 0]
    /\ sent = {}
    /\ notified = {}
    /\ marked = Undefined
    /\ scratchLeft = {}

\* ------------------------------------------------------------------------
\* Connection Registry (WSServer)
\* ------------------------------------------------------------------------
\* wss.on('connection'): handleConnection stores the socket under a fresh id
Connect(c) ==
    /\ sockState[c] = "none"
    /\ \A d \in ConnIds : d < c => sockState[d] # "none"
    /\ sockState' = [sockState EXCEPT ![c] = "open"]
    /\ connections' = connections \cup {c}
    /\ UNCHANGED <<streamHandlers, audioBuffers, handles, passes, framesIn,
                   fed, invocations, writeFailed, emitted,
                   scratchLeft, toolVars, transcribeVars>>
    /\ Quiet

\* the peer starts the closing handshake: readyState leaves OPEN before the
\* 'close' event is emitted
BeginClose(c) ==
    /\ sockState[c] = "open"
    /\ sockState' = [sockState EXCEPT ![c] = "closing"]
    /\ UNCHANGED <<connections, streamHandlers, audioBuffers, handles, passes,
                   framesIn, fed, invocations, writeFailed, emitted,
                   scratchLeft, toolVars, transcribeVars>>
    /\ Quiet

\* ws.on('close'): the connection leaves the table and every stream handler
\* is called with {type: 'error', error: 'Connection closed'}; the handler
\* of processAudioStream acts on 'media' and 'mark' only
CloseEvent(c) ==
    /\ sockState[c] \in {"open", "closing"}
    /\ sockState' = [sockState EXCEPT ![c] = "closed"]
    /\ connections' = connections \ {c}
    /\ sent' = {}
    /\ marked' = Undefined
    /\ notified' =
          {[handler |-> s, connectionId |-> c,
            message |-> WebSocketMessage("error", "Connection closed",
                                         Undefined, s)] : s \in streamHandlers}
    /\ UNCHANGED <<streamHandlers, audioBuffers, handles, passes, framesIn,
                   fed, invocations, writeFailed, emitted,
                   scratchLeft, toolVars, transcribeVars>>

\* an 'error' handler that leaves the connection in the table
ErrorEventKeepsConnection(c) ==
    /\ sockState[c] = "open"
    /\ sockState' = [sockState EXCEPT ![c] = "closing"]
    /\ connections' = connections
    /\ UNCHANGED <<streamHandlers, audioBuffers, handles, passes, framesIn,
                   fed, invocations, writeFailed, emitted,
                   scratchLeft, toolVars, transcribeVars>>
    /\ Quiet

\* ws.on('error'): the connection leaves the table, no handler is notified
ErrorEvent(c) ==
    /\ sockState[c] = "open"
    /\ sockState' = [sockState EXCEPT ![c] = "closing"]
    /\ connections' = connections \ {c}
    /\ UNCHANGED <<streamHandlers, audioBuffers, handles, passes, framesIn,
                   fed, invocations, writeFailed, emitted,
                   scratchLeft, toolVars, transcribeVars>>
    /\ Quiet

\* the method of a protocol-envelope message ({jsonrpc: '2.0', method, ...})
Methods == {"tools/call", "tools/list", "ping"}
StartsWithTools(method) == method \in {"tools/call", "tools/list"}
\* the id of a request, written as its JSON text; Undefined: no id
Ids == {Undefined, "0", "7", "\"\"", "\"req-1\""}
\* if (message.id): 0 and the empty string are falsy
Truthy(id) == id \notin {Undefined, "0", "\"\""}
\* `No handler for method: ${message.method}`
NoHandlerError(method) ==
    CASE method = "tools/call" -> "No handler for method: tools/call"
      [] method = "tools/list" -> "No handler for method: tools/list"
      [] OTHER -> "No handler for method"

\* ws.on('message') with a protocol-envelope message: handleMessage looks
\* the handler up under message.method and answers when there is none
ProtocolFrame(c, method, id) ==
    LET carried == IF Truthy(id) THEN id ELSE Undefined
        mcpMessage == WebSocketMessage("mcp", Undefined, carried, Undefined)
                          @@ ("method" :> method)
        errorResponse == WebSocketMessage("error", NoHandlerError(method),
                                          carried, Undefined)
    IN  /\ sockState[c] = "open"
        /\ marked' = Undefined
        /\ IF ~StartsWithTools(method)
           THEN Quiet
           ELSE IF method \in streamHandlers
           THEN /\ sent' = {}
                /\ notified' = {[handler |-> method, connectionId |-> c,
                                  message |-> mcpMessage]}
           ELSE /\ sent' = send(connections, c, errorResponse)
                /\ notified' = {}
        /\ UNCHANGED <<sockState, connections, streamHandlers, audioBuffers,
                       handles, passes, framesIn, fed, invocations,
                       writeFailed, emitted,
                       scratchLeft, toolVars, transcribeVars>>

\* the catch block of ws.on('message') reporting through broadcast instead of
\* send
BadFrameBroadcast(c) ==
    /\ sockState[c] = "open"
    /\ sent' = broadcastSent(connections, Undefined,
                             WebSocketMessage("error", "Invalid message format",
                                              Undefined, Undefined))
    /\ notified' = {}
    /\ marked' = Undefined
    /\ UNCHANGED <<sockState, connections, streamHandlers, audioBuffers,
                   handles, passes, framesIn, fed, invocations, writeFailed,
                   emitted, scratchLeft, toolVars, transcribeVars>>

\* ws.on('message') with data JSON.parse rejects: the catch block answers
\* on the same connection
BadFrame(c) ==
    /\ sockState[c] = "open"
    /\ sent' = send(connections, c,
                    WebSocketMessage("error", "Invalid message format",
                                     Undefined, Undefined))
    /\ notified' = {}
    /\ marked' = Undefined
    /\ UNCHANGED <<sockState, connections, streamHandlers, audioBuffers,
                   handles, passes, framesIn, fed, invocations, writeFailed,
                   emitted, scratchLeft, toolVars, transcribeVars>>

\* WSServer.broadcast(streamSid, message), called by a user of the registry
Broadcast(streamSid, type) ==
    /\ sent' = broadcastSent(connections, streamSid,
                             WebSocketMessage(type, Undefined, Undefined,
                                              Undefined))
    /\ connections' = broadcast(connections)
    /\ notified' = {}
    /\ marked' = Undefined
    /\ UNCHANGED <<sockState, streamHandlers, audioBuffers, handles, passes,
                   framesIn, fed, invocations, writeFailed, emitted,
                   scratchLeft, toolVars, transcribeVars>>

\* ------------------------------------------------------------------------
\* Audio Accumulator (AudioProcessor)
\* ------------------------------------------------------------------------
\* processAudioStream: a fresh array for the stream, the handler registered
\* under the stream identifier, a handle returned
ProcessAudioStream(s, language) ==
    /\ HandlesReturned < MaxHandles
    /\ audioBuffers' = [audioBuffers EXCEPT ![s] = EmptyBuffer]
    /\ passes' = Detach(passes, s)
    /\ streamHandlers' = streamHandlers \cup {s}
    /\ handles' = [handles EXCEPT ![s] = Append(@, language)]
    /\ UNCHANGED <<sockState, connections, framesIn, fed, invocations,
                   writeFailed, emitted, scratchLeft, toolVars, transcribeVars>>
    /\ Quiet

\* handleAudioChunk with unshift for push: the frame goes to the front
handleAudioChunkUnshift(s, chars, c) ==
    LET buf0 == IF audioBuffers[s].has THEN audioBuffers[s] ELSE EmptyBuffer
        \* seq: the position of the frame among the media frames received
        audioData == [bytes |-> Base64ByteLength(chars), epoch |-> ClosedSoFar,
                      seq |-> framesIn + 1]
        buffer == <<audioData>> \o buf0.chunks
        bufs == [audioBuffers EXCEPT ![s] = [has |-> TRUE, chunks |-> buffer]]
    IN  IF chars = 0
        THEN /\ audioBuffers' = [audioBuffers EXCEPT ![s] = buf0]
             /\ UNCHANGED <<passes, framesIn, fed>>
        ELSE /\ framesIn < MaxFrames
             /\ framesIn' = framesIn + 1
             /\ audioBuffers' = bufs
             /\ fed' = [fed EXCEPT ![s] = @ + audioData.bytes]
             /\ IF ThresholdReached(buffer, audioData.bytes)
                THEN /\ HasFreePass
                     /\ passes' = processAudioBuffer(passes, bufs, s, "en-US",
                                                     FALSE,
                                                     fed[s] + audioData.bytes)
                ELSE UNCHANGED passes

\* handleAudioChunk, called by the stream handler for a 'media' message:
\* the buffers and the passes after the call
handleAudioChunk(s, chars, c) ==
    LET buf0 == IF audioBuffers[s].has THEN audioBuffers[s] ELSE EmptyBuffer
        \* seq: the position of the frame among the media frames received
        audioData == [bytes |-> Base64ByteLength(chars), epoch |-> ClosedSoFar,
                      seq |-> framesIn + 1]
        buffer == Append(buf0.chunks, audioData)
        bufs == [audioBuffers EXCEPT ![s] = [has |-> TRUE, chunks |-> buffer]]
    IN  IF chars = 0
        THEN /\ audioBuffers' = [audioBuffers EXCEPT ![s] = buf0]
             /\ UNCHANGED <<passes, framesIn, fed>>
        ELSE /\ framesIn < MaxFrames
             /\ framesIn' = framesIn + 1
             /\ audioBuffers' = bufs
             /\ fed' = [fed EXCEPT ![s] = @ + audioData.bytes]
             /\ IF ThresholdReached(buffer, audioData.bytes)
                THEN /\ HasFreePass
                     /\ passes' = processAudioBuffer(passes, bufs, s, "en-US",
                                                     FALSE,
                                                     fed[s] + audioData.bytes)
                ELSE UNCHANGED passes

\* a stream handler that accumulates the payload of every frame
streamHandlerOfAnyType(s, type, chars, c) == handleAudioChunk(s, chars, c)

\* the handler processAudioStream registers: a 'media' frame goes to
\* handleAudioChunk, a 'mark' frame is logged; chars is the length of
\* message.payload.media.payload
streamHandler(s, type, chars, c) ==
    IF type = "media"
    THEN handleAudioChunk(s, chars, c)
    ELSE UNCHANGED <<audioBuffers, passes, framesIn, fed>>

\* ws.on('message') with a legacy stream message of type 'media':
\* handleMessage looks the handler up under message.streamSid
MediaFrame(c, s, chars) ==
    /\ sockState[c] = "open"
    /\ IF s \in streamHandlers
       THEN streamHandler(s, "media", chars, c)
       ELSE UNCHANGED <<audioBuffers, passes, framesIn, fed>>
    /\ UNCHANGED <<sockState, connections, streamHandlers, handles,
                   invocations, writeFailed, emitted,
                   scratchLeft, toolVars, transcribeVars>>
    /\ Quiet

\* a 'mark' message for a stream with a handler, whatever else its payload
\* holds: the handler only logs it
MarkFrame(c, s, chars) ==
    /\ sockState[c] = "open"
    /\ s \in streamHandlers
    /\ streamHandler(s, "mark", chars, c)
    /\ UNCHANGED <<sockState, connections, streamHandlers, handles,
                   invocations, writeFailed, emitted,
                   scratchLeft, toolVars, transcribeVars>>
    /\ sent' = {}
    /\ notified' = {}
    /\ marked' = s

\* processAudioBuffer resumes after bufferToWavFile and calls transcribeAudio
PassWriteDone(p) ==
    /\ passes[p].pc = "write"
    /\ passes' = [passes EXCEPT ![p].pc = "transcribe"]
    /\ invocations' = [invocations EXCEPT ![passes[p].streamSid] =
                           Append(@, passes[p].trigger)]
    /\ UNCHANGED <<sockState, connections, streamHandlers, audioBuffers,
                   handles, framesIn, fed, writeFailed, emitted, scratchLeft,
                   toolVars, transcribeVars>>
    /\ Quiet

\* a catch block that gives the stream up: the handler is unregistered and
\* the buffer deleted
PassWriteFailFatal(p) ==
    /\ passes[p].pc = "write"
    /\ passes' = [passes EXCEPT ![p] = IdlePass]
    /\ connections' = broadcast(connections)
    /\ writeFailed' = writeFailed \cup {passes[p].streamSid}
    /\ sent' = broadcastSent(connections, passes[p].streamSid,
                             WebSocketMessage("error", "EACCES", Undefined,
                                              Undefined))
    /\ notified' = {}
    /\ marked' = Undefined
    /\ streamHandlers' = streamHandlers \ {passes[p].streamSid}
    /\ audioBuffers' = [audioBuffers EXCEPT ![passes[p].streamSid] = NoBuffer]
    /\ UNCHANGED <<sockState, handles, framesIn, fed, invocations, emitted,
                   scratchLeft, toolVars, transcribeVars>>

\* fs.writeFile rejects: the catch block broadcasts an error message
PassWriteFail(p) ==
    /\ passes[p].pc = "write"
    /\ passes' = [passes EXCEPT ![p] = IdlePass]
    /\ connections' = broadcast(connections)
    /\ writeFailed' = writeFailed \cup {passes[p].streamSid}
    /\ sent' = broadcastSent(connections, passes[p].streamSid,
                             WebSocketMessage("error", "EACCES", Undefined,
                                              Undefined))
    /\ notified' = {}
    /\ marked' = Undefined
    /\ UNCHANGED <<sockState, streamHandlers, audioBuffers, handles, framesIn,
                   fed, invocations, emitted,
                   scratchLeft, toolVars, transcribeVars>>

\* fs.writeFile rejects after it has created the file (a full disk): the
\* catch block broadcasts an error message and the pass ends
PassWritePartial(p) ==
    /\ passes[p].pc = "write"
    /\ passes' = [passes EXCEPT ![p] = IdlePass]
    /\ connections' = broadcast(connections)
    /\ writeFailed' = writeFailed \cup {passes[p].streamSid}
    /\ scratchLeft' = scratchLeft \cup {passes[p].streamSid}
    /\ sent' = broadcastSent(connections, passes[p].streamSid,
                             WebSocketMessage("error", "ENOSPC", Undefined,
                                              Undefined))
    /\ notified' = {}
    /\ marked' = Undefined
    /\ UNCHANGED <<sockState, streamHandlers, audioBuffers, handles, framesIn,
                   fed, invocations, emitted, toolVars, transcribeVars>>

\* transcribeAudio resolves and the pass empties the buffer of every stream
PassTranscribeDoneClearsAll(p) ==
    LET s == passes[p].streamSid IN
    /\ passes[p].pc = "transcribe"
    /\ passes' = [passes EXCEPT ![p].pc = "unlink"]
    /\ emitted' = IF passes[p].callback
                  THEN [emitted EXCEPT ![s] = @ + 1]
                  ELSE emitted
    /\ audioBuffers' = [t \in Streams |->
                           [audioBuffers[t] EXCEPT !.chunks = <<>>]]
    /\ UNCHANGED <<sockState, connections, streamHandlers, handles, framesIn,
                   fed, invocations, writeFailed,
                   scratchLeft, toolVars, transcribeVars>>
    /\ Quiet

\* transcribeAudio resolves: the callback is called if the caller passed
\* one, then buffer.length = 0 on the array the pass read at its start
PassTranscribeDone(p) ==
    LET s == passes[p].streamSid IN
    /\ passes[p].pc = "transcribe"
    /\ passes' = [passes EXCEPT ![p].pc = "unlink"]
    /\ emitted' = IF passes[p].callback
                  THEN [emitted EXCEPT ![s] = @ + 1]
                  ELSE emitted
    /\ audioBuffers' = IF passes[p].sameArray
                       THEN [audioBuffers EXCEPT ![s].chunks = <<>>]
                       ELSE audioBuffers
    /\ UNCHANGED <<sockState, connections, streamHandlers, handles, framesIn,
                   fed, invocations, writeFailed,
                   scratchLeft, toolVars, transcribeVars>>
    /\ Quiet

\* fs.unlink settles (a rejection is caught and logged)
PassUnlinkDone(p) ==
    /\ passes[p].pc = "unlink"
    /\ passes' = [passes EXCEPT ![p] = IdlePass]
    /\ UNCHANGED <<sockState, connections, streamHandlers, audioBuffers,
                   handles, framesIn, fed, invocations, writeFailed,
                   emitted, scratchLeft, toolVars, transcribeVars>>
    /\ Quiet

\* stop() of the i-th handle returned for s: unregister, delete the buffer,
\* then look the buffer up again and process what is found
Stop(s, i) ==
    LET language == handles[s][i]
        bufs == [audioBuffers EXCEPT ![s] = NoBuffer]
        remainingAudio == IF bufs[s].has THEN bufs[s].chunks ELSE <<>>
    IN  /\ i \in 1..Len(handles[s])
        /\ streamHandlers' = streamHandlers \ {s}
        /\ audioBuffers' = bufs
        /\ IF Len(remainingAudio) > 0
           THEN /\ HasFreePass
                /\ passes' = processAudioBuffer(Detach(passes, s), bufs, s,
                                                language, TRUE, fed[s])
           ELSE passes' = Detach(passes, s)
        /\ UNCHANGED <<sockState, connections, handles, framesIn, fed,
                       invocations, writeFailed, emitted,
                       scratchLeft, toolVars, transcribeVars>>
        /\ Quiet

\* ------------------------------------------------------------------------
\* Tool layer: inputs
\* ------------------------------------------------------------------------
MaxTextLen == 2
MaxBatches == 2
MaxRecordings == 1

Tokens == {"tok-a", "tok-b"}
Users == {[id |-> "user-123", phoneNumber |-> "919876543210"]}
NoUser == [id |-> Undefined, phoneNumber |-> Undefined]
CallSids == {"CA1", "CA2"}
fromNumber == "+15557654321"
Servers == {"mcpServer", "index"}

\* a text is a sequence of these pieces; " " is the separator of split(' ')
TextPieces == {"good", "bad", "refund", " "}
Texts == UNION {[1..n -> TextPieces] : n \in 0..MaxTextLen}
MaxLengths == {-3, 0, 5, 10}
Styles == {"bullet", "paragraph", "haiku"}

\* an arguments object is built from optional properties: each is absent
\* or has one of its values
EmptyObject == [k \in {} |-> Undefined]
Property(k, values) == {EmptyObject} \cup {k :> v : v \in values}

Has(args, k) == k \in DOMAIN args
\* destructuring: a missing property is undefined
Get(args, k) == IF Has(args, k) THEN args[k] ELSE Undefined
\* destructuring with a default value
GetOr(args, k, default) == IF Has(args, k) THEN args[k] ELSE default

CallArgs ==
    {a @@ b @@ c : a \in Property("to", {"+15551234567"}),
                   b \in Property("message", {"hello"}),
                   c \in Property("voice", {"bob"})}
ValidateArgs == Property("token", Tokens)
RecordArgs ==
    {a @@ b @@ c : a \in Property("callId", CallSids),
                   b \in Property("callSid", {"CA1"}),
                   c \in Property("action", {"start", "stop"})}
\* record arguments whose action may lie outside the declared enum
RecordActions == {"start", "stop", "pause"}
AnyRecordArgs ==
    {a @@ b @@ c : a \in Property("callId", CallSids),
                   b \in Property("callSid", {"CA1"}),
                   c \in Property("action", RecordActions)}
CallStatusArgs ==
    {a @@ b : a \in Property("callId", CallSids),
              b \in Property("callSid", {"CA1"})}
AudioUrls == {"https://example.com/a.wav"}
TranscribeArgs ==
    {a @@ b @@ c : a \in Property("callId", {"", "CA1"}),
                   b \in Property("callSid", {"CA2"}),
                   c \in Property("audioUrl", AudioUrls)}
SummarizeArgs ==
    {a @@ b @@ c : a \in Property("text", Texts),
                   b \in Property("maxLength", MaxLengths),
                   c \in Property("style", Styles)}

\* tools.ts: the fields each inputSchema declares without optional()
Required(tool) ==
    CASE tool = "call" -> {"to", "message"}
      [] tool = "call-status" -> {"callId"}
      [] tool = "validate" -> {"token"}
      [] tool = "record" -> {"callId", "action"}
      [] tool = "summarize" -> {"text"}

\* what a handler did: it returned a value or threw an Error with a message
Returned(value) == [threw |-> FALSE, error |-> <<>>, result |-> value]
Threw(message) == [threw |-> TRUE, error |-> message, result |-> <<>>]
NoReply == [ok |-> FALSE, sid |-> "none"]
NoInvocation ==
    [server |-> "none", tool |-> "none", args |-> EmptyObject, reply |-> NoReply]

\* ------------------------------------------------------------------------
\* Token Validator (AuthService)
\* ------------------------------------------------------------------------
\* validateToken: tokenStore.get(token)
validateToken(token) ==
    IF token \in Tokens /\ tokenStore[token] # NoUser
    THEN [user |-> tokenStore[token], message |-> Undefined]
    ELSE [user |-> NoUser, message |-> "Invalid or expired token"]

\* ------------------------------------------------------------------------
\* Summarization (SummarizationService)
\* ------------------------------------------------------------------------
\* String.length of a piece
PieceLength(piece) ==
    CASE piece = "good" -> 4
      [] piece = "bad" -> 3
      [] piece = "refund" -> 6
      [] piece = " " -> 1

RECURSIVE TextLength(_)
TextLength(text) ==
    IF text = <<>> THEN 0 ELSE PieceLength(Head(text)) + TextLength(Tail(text))

\* text.split(' '): the words between the separators, empty words included
RECURSIVE Split(_, _)
Split(text, word) ==
    IF text = <<>> THEN <<word>>
    ELSE IF Head(text) = " " THEN <<word>> \o Split(Tail(text), <<>>)
    ELSE Split(Tail(text), Append(word, Head(text)))

\* words.join(' ')
RECURSIVE Join(_)
Join(words) ==
    IF words = <<>> THEN <<>>
    ELSE IF Len(words) = 1 THEN Head(words)
    ELSE Head(words) \o <<" ">> \o Join(Tail(words))

\* Array.prototype.slice(0, end) for end = Math.min(maxLength / 5, n): the
\* end is truncated towards zero, a negative end counts from the back
SliceEnd(maxLength, n) ==
    LET whole == IF maxLength >= 0 THEN maxLength \div 5
                 ELSE -((-maxLength) \div 5)
        end == IF maxLength <= 5 * n THEN whole ELSE n
    IN  IF end < 0 THEN (IF n + end < 0 THEN 0 ELSE n + end) ELSE end

\* performSummarization: the summary as its pieces, with its length
performSummarization(text, maxLength, style) ==
    LET words == Split(text, <<>>)
        truncated == Join(SubSeq(words, 1, SliceEnd(maxLength, Len(words))))
        shape == IF style \in {"bullet", "paragraph"} THEN style
                 ELSE "key_points"
        fixed == CASE shape = "bullet" -> 87
                   [] shape = "paragraph" -> 102
                   [] shape = "key_points" -> 73
    IN  [template |-> shape, truncated |-> truncated,
         length |-> fixed + TextLength(truncated)]

PositiveWords ==
    {"good", "great", "excellent", "happy", "satisfied", "love", "amazing"}
NegativeWords ==
    {"bad", "terrible", "awful", "angry", "frustrated", "hate", "disappointed"}
CommonTopics ==
    {"customer service", "order status", "billing", "technical support",
     "product inquiry", "complaint", "feedback", "refund", "delivery"}

\* lowerText.includes(word), for the words a text of these pieces can hold
Includes(text, word) == \E k \in 1..Len(text) : text[k] = word

analyzeSentiment(text) ==
    LET positiveCount == Cardinality({w \in PositiveWords : Includes(text, w)})
        negativeCount == Cardinality({w \in NegativeWords : Includes(text, w)})
    IN  IF positiveCount > negativeCount THEN "positive"
        ELSE IF negativeCount > positiveCount THEN "negative"
        ELSE "neutral"

extractKeyTopics(text) == {topic \in CommonTopics : Includes(text, topic)}

\* summarize: text.split throws a TypeError when text is undefined, which
\* the catch block rethrows
summarize(options) ==
    LET text == Get(options, "text")
        maxLength == GetOr(options, "maxLength", 150)
        style == GetOr(options, "style", "key_points")
        summary == performSummarization(text, maxLength, style)
    IN  IF ~Has(options, "text")
        THEN Threw(<<"Failed to summarize text",
                     "Cannot read properties of undefined">>)
        ELSE Returned([summary |-> summary,
                       originalLength |-> TextLength(text),
                       summaryLength |-> summary.length,
                       keyTopics |-> extractKeyTopics(text),
                       sentiment |-> analyzeSentiment(text)])

\* ------------------------------------------------------------------------
\* Provider Client Adapter (TwilioService)
\* ------------------------------------------------------------------------
\* the provider's answer to a request: it accepts or rejects it, and names
\* the call it creates
ProviderReplies == [ok : BOOLEAN, sid : CallSids]
RecordingReplies == [ok : BOOLEAN, sid : {"RE1"}]
ProviderError == "provider error"

\* what the provider reports of a call (calls(sid).fetch()); Null is the
\* provider's null
Null == "null"
NoCall == [status |-> "none", duration |-> Null, price |-> Null,
           startTime |-> Null, endTime |-> Null]
QueuedCall == [NoCall EXCEPT !.status = "queued"]

\* makeCall: one calls.create request; the provider rejects a request
\* without a destination
makeCall(options, reply) ==
    LET to == Get(options, "to")
        request == [api |-> "calls.create", to |-> to, from |-> fromNumber]
    IN  [requests |-> <<request>>,
         out |-> IF reply.ok /\ to # Undefined
                 THEN Returned([sid |-> reply.sid, status |-> "queued",
                                to |-> to, from |-> fromNumber,
                                direction |-> "outbound-api"])
                 ELSE Threw(<<ProviderError>>),
         recordings |-> recordings,
         providerCalls |-> IF reply.ok /\ to # Undefined
                           THEN [providerCalls EXCEPT ![reply.sid] = QueuedCall]
                           ELSE providerCalls]

\* getCallStatus: one calls(callId).fetch(); the provider rejects a fetch of
\* a call it does not know
getCallStatus(callId) ==
    LET known == callId \in CallSids /\ providerCalls[callId] # NoCall
        call == providerCalls[callId]
    IN  [requests |-> <<[api |-> "calls.fetch", callSid |-> callId]>>,
         out |-> IF known
                 THEN Returned([status |-> call.status,
                                duration |-> call.duration,
                                startTime |-> call.startTime,
                                endTime |-> call.endTime,
                                price |-> call.price])
                 ELSE Threw(<<ProviderError>>)]

\* recordCall: 'start' creates a recording; every other action lists the
\* recordings of the call and stops the first one
recordCall(options, reply) ==
    LET callId == Get(options, "callId")
        known == callId \in CallSids
        list == IF known THEN recordings[callId] ELSE <<>>
        create == [api |-> "recordings.create", callSid |-> callId]
        listing == [api |-> "recordings.list", callSid |-> callId]
        update == [api |-> "recordings.update", callSid |-> callId]
        created == [sid |-> reply.sid, status |-> "in-progress"]
        stopped == [Head(list) EXCEPT !.status = "stopped"]
    IN  IF Get(options, "action") = "start"
        THEN IF reply.ok /\ known /\ Len(list) < MaxRecordings
             THEN [requests |-> <<create>>,
                   out |-> Returned([sid |-> created.sid, callSid |-> callId,
                                     status |-> created.status,
                                     duration |-> Undefined]),
                   recordings |-> [recordings EXCEPT
                                       ![callId] = <<created>> \o list]]
             ELSE [requests |-> <<create>>,
                   out |-> Threw(<<ProviderError>>),
                   recordings |-> recordings]
        ELSE IF ~(reply.ok /\ known)
             THEN [requests |-> <<listing>>,
                   out |-> Threw(<<ProviderError>>),
                   recordings |-> recordings]
             ELSE IF Len(list) = 0
             THEN [requests |-> <<listing>>,
                   out |-> Threw(<<"No active recordings found for call",
                                   callId>>),
                   recordings |-> recordings]
             ELSE [requests |-> <<listing, update>>,
                   out |-> Returned([sid |-> stopped.sid, callSid |-> callId,
                                     status |-> stopped.status,
                                     duration |-> Undefined]),
                   recordings |-> [recordings EXCEPT
                                       ![callId] = <<stopped>> \o Tail(list)]]

\* ------------------------------------------------------------------------
\* Transcription (TranscriptionService)
\* ------------------------------------------------------------------------
DownloadReplies == [ok : BOOLEAN, sid : {"none"}]

\* performTranscription: the audio file is downloaded and transcribed; a
\* download that fails is rethrown
performTranscription(audioUrl, language, reply) ==
    IF reply.ok
    THEN Returned([text |-> "This is a simulated transcription.",
                   confidence |-> "0.95", duration |-> 30,
                   status |-> "completed"])
    ELSE Threw(<<"Transcription failed", "Failed to download audio",
                 ProviderError>>)

\* transcribe without its tests: a stream is started whatever is given
transcribeAlwaysStreams(options, reply) ==
    LET language == GetOr(options, "language", "en-US")
    IN  [requests |-> <<>>, stream |-> "CA1", batch |-> Undefined,
         out |-> Returned([id |-> "trans_1", text |-> "", confidence |-> 0,
                           language |-> language, duration |-> 0,
                           status |-> "in-progress", wordCount |-> 0])]

\* transcribe: a stream is started for a call when there is an
\* AudioProcessor, else the audio at the URL is transcribed, else it throws;
\* stream is the stream it starts and batch the URL it transcribes
transcribe(options, reply) ==
    LET callId == Get(options, "callId")
        audioUrl == Get(options, "audioUrl")
        language == GetOr(options, "language", "en-US")
        transcription == performTranscription(audioUrl, language, reply)
    IN  IF callId \notin {Undefined, ""} /\ audioProcessor
        THEN [requests |-> <<>>, stream |-> callId, batch |-> Undefined,
              out |-> Returned([id |-> "trans_1", text |-> "",
                                confidence |-> 0, language |-> language,
                                duration |-> 0, status |-> "in-progress",
                                wordCount |-> 0])]
        ELSE IF audioUrl \notin {Undefined, ""}
        THEN [requests |-> <<[api |-> "GET", url |-> audioUrl]>>,
              stream |-> Undefined, batch |-> audioUrl,
              out |-> IF transcription.threw
                      THEN Threw(<<"Failed to transcribe audio">>
                                     \o transcription.error)
                      ELSE Returned([id |-> "trans_1",
                                     text |-> transcription.result.text,
                                     confidence |->
                                         transcription.result.confidence,
                                     language |-> language,
                                     duration |->
                                         transcription.result.duration,
                                     status |-> transcription.result.status,
                                     wordCount |-> 5])]
        ELSE [requests |-> <<>>, stream |-> Undefined, batch |-> Undefined,
              out |-> Threw(<<"Failed to transcribe audio",
                  "Either callId (for real-time) or audioUrl (for batch) must be provided">>)]

\* ------------------------------------------------------------------------
\* Tool Dispatcher: the handlers of createMCPServer (mcpServer.ts, "mcpServer")
\* and of the setRequestHandler registrations in tools.ts ("index")
\* ------------------------------------------------------------------------
\* what a handler hands on: the properties it read that are not undefined
Pick(args, fields) == [k \in (DOMAIN args) \cap fields |-> args[k]]

\* tools/call
callHandler(server, args, reply) ==
    LET options == Pick(args, {"to", "message"})
                       @@ ("voice" :> GetOr(args, "voice", "alice"))
                       @@ ("language" :> GetOr(args, "language", "en-US"))
        made == makeCall(options, reply)
        call == made.out.result
    IN  [calls |-> <<[method |-> "makeCall", options |-> options,
                      out |-> made.out]>>,
         requests |-> made.requests,
         recordings |-> made.recordings,
         providerCalls |-> made.providerCalls,
         out |-> IF made.out.threw
                 THEN Threw(<<"Failed to make call">> \o made.out.error)
                 ELSE IF server = "index"
                 THEN Returned([callId |-> call.sid, status |-> call.status,
                                to |-> call.to, from |-> call.from,
                                message |-> "Call initiated successfully"])
                 ELSE Returned([callSid |-> call.sid, status |-> call.status,
                                from |-> call.from, to |-> call.to,
                                dateCreated |-> "now"])]

\* tools/call-status; TwilioService has no method getCall, so the call in
\* mcpServer.ts throws a TypeError
callStatusHandler(server, args) ==
    LET callId == Get(args, "callId")
        got == getCallStatus(callId)
        callStatus == got.out.result
    IN  IF server = "index"
        THEN [calls |-> <<[method |-> "getCallStatus",
                           options |-> Pick(args, {"callId"}),
                           out |-> got.out]>>,
              requests |-> got.requests,
              out |-> IF got.out.threw
                      THEN Threw(<<"Failed to get call status">>
                                     \o got.out.error)
                      ELSE Returned([callId |-> callId,
                                     status |-> callStatus.status,
                                     duration |-> callStatus.duration,
                                     startTime |-> callStatus.startTime,
                                     endTime |-> callStatus.endTime,
                                     price |-> callStatus.price])]
        ELSE [calls |-> <<>>,
              requests |-> <<>>,
              out |-> Threw(<<"Failed to get call status",
                              "twilioService.getCall is not a function">>)]

\* tools/validate
validateHandler(server, args) ==
    LET token == Get(args, "token")
        checked == validateToken(token)
        call == [method |-> "validateToken", options |-> Pick(args, {"token"}),
                 out |-> Returned(checked)]
    IN  IF server = "index"
        THEN IF ~Has(args, "token")
             \* token.substring throws before validateToken is called
             THEN [calls |-> <<>>,
                   out |-> Returned([phoneNumber |-> "", isValid |-> FALSE,
                                     message |->
                                         "Error validating token: Cannot read properties of undefined (reading 'substring')"])]
             ELSE IF checked.user = NoUser
             THEN [calls |-> <<call>>,
                   out |-> Returned([phoneNumber |-> "", isValid |-> FALSE,
                                     message |-> checked.message])]
             ELSE [calls |-> <<call>>,
                   out |-> Returned([phoneNumber |-> checked.user.phoneNumber,
                                     isValid |-> TRUE,
                                     message |-> "Token validated successfully"])]
        ELSE [calls |-> <<call>>,
              out |-> Returned([isValid |-> TRUE,
                                userId |-> checked.user.id,
                                phoneNumber |-> checked.user.phoneNumber])]

\* tools/record
recordHandler(server, args, reply) ==
    LET options == Pick(args, {"callId", "action"})
                       @@ ("recordingChannels" :> "dual")
        done == recordCall(options, reply)
        recording == done.out.result
    IN  IF server = "index"
        THEN [calls |-> <<[method |-> "recordCall", options |-> options,
                           out |-> done.out]>>,
              requests |-> done.requests,
              recordings |-> done.recordings,
              out |-> IF done.out.threw
                      THEN Threw(<<"Failed to record call">> \o done.out.error)
                      ELSE Returned([recordingId |-> recording.sid,
                                     callId |-> recording.callSid,
                                     status |-> recording.status,
                                     action |-> Get(args, "action"),
                                     duration |-> recording.duration])]
        ELSE [calls |-> <<>>,
              requests |-> <<>>,
              recordings |-> recordings,
              out |-> IF Get(args, "action") = "start"
                      THEN Returned([status |-> "started",
                                     callSid |-> Get(args, "callSid")])
                      ELSE Returned([status |-> "stopped",
                                     callSid |-> Get(args, "callSid")])]

\* tools/summarize
summarizeHandler(server, args) ==
    LET options == IF server = "index"
                   THEN Pick(args, {"text"})
                            @@ ("maxLength" :> GetOr(args, "maxLength", 150))
                            @@ ("style" :> GetOr(args, "style", "key_points"))
                   ELSE Pick(args, {"text"}) @@ ("language" :> "en")
        done == summarize(options)
        summary == done.result
    IN  [calls |-> <<[method |-> "summarize", options |-> options,
                      out |-> done]>>,
         out |-> IF done.threw
                 THEN Threw(<<"Failed to summarize text">> \o done.error)
                 ELSE IF server = "index"
                 THEN Returned([summary |-> summary.summary,
                                originalLength |-> summary.originalLength,
                                summaryLength |-> summary.summaryLength,
                                keyTopics |-> summary.keyTopics,
                                sentiment |-> summary.sentiment])
                 ELSE Returned([summary |-> summary.summary,
                                language |-> Undefined])]

\* tools/transcribe
transcribeHandler(server, args, reply) ==
    LET language == GetOr(args, "language", "en-US")
        callSid == Get(args, "callSid")
        options == IF server = "index"
                   THEN Pick(args, {"callId", "audioUrl"})
                            @@ ("language" :> language)
                   ELSE ("callId" :> callSid) @@ ("language" :> language)
        done == transcribe(options, reply)
        transcription == done.out.result
        call == [method |-> "transcribe", options |-> options,
                 out |-> done.out]
        nothing == [calls |-> <<>>, requests |-> <<>>, stream |-> Undefined,
                    batch |-> Undefined]
    IN  IF server = "index"
        THEN [calls |-> <<call>>, requests |-> done.requests,
              stream |-> done.stream, batch |-> done.batch,
              out |-> IF done.out.threw
                      THEN Threw(<<"Failed to transcribe audio">>
                                     \o done.out.error)
                      ELSE Returned([transcriptionId |-> transcription.id,
                                     text |-> transcription.text,
                                     confidence |-> transcription.confidence,
                                     language |-> transcription.language,
                                     duration |-> transcription.duration,
                                     wordCount |-> transcription.wordCount])]
        ELSE IF callSid \notin {Undefined, ""}
        THEN [calls |-> <<call>>, requests |-> done.requests,
              stream |-> done.stream, batch |-> done.batch,
              out |-> IF done.out.threw
                      THEN Threw(<<"Failed to transcribe audio">>
                                     \o done.out.error)
                      ELSE Returned([text |-> transcription.text,
                                     language |-> transcription.language,
                                     callId |-> callSid,
                                     status |-> "completed"])]
        ELSE IF Get(args, "audioUrl") \notin {Undefined, ""}
        THEN nothing @@ ("out" :> Threw(<<"Failed to transcribe audio",
                 "Direct audio URL transcription is not yet implemented">>))
        ELSE nothing @@ ("out" :> Threw(<<"Failed to transcribe audio",
                 "Either callSid or audioUrl must be provided">>))

\* ------------------------------------------------------------------------
\* Tool layer: state and operations
\* ------------------------------------------------------------------------
ToolInit ==
    /\ tokenStore = [t \in Tokens |-> NoUser]
    /\ recordings = [c \in CallSids |-> <<>>]
    /\ providerCalls = [c \in CallSids |-> NoCall]
    /\ invocation = NoInvocation
    /\ outcome = Returned(EmptyObject)
    /\ adapterCalls = <<>>
    /\ providerRequests = <<>>

\* AuthService.addTokenForTesting
AddTokenForTesting(token, user) ==
    /\ tokenStore' = [tokenStore EXCEPT ![token] = user]
    /\ UNCHANGED <<recordings, providerCalls, invocation, outcome,
                   adapterCalls, providerRequests, streamVars, transcribeVars>>

\* a tools/call request reaches its handler
InvokeCall(server, args, reply) ==
    LET done == callHandler(server, args, reply)
    IN  /\ reply.ok => providerCalls[reply.sid] = NoCall
        /\ invocation' = [server |-> server, tool |-> "call", args |-> args,
                          reply |-> reply]
        /\ outcome' = done.out
        /\ adapterCalls' = done.calls
        /\ providerRequests' = done.requests
        /\ recordings' = done.recordings
        /\ providerCalls' = done.providerCalls
        /\ UNCHANGED <<tokenStore, streamVars, transcribeVars>>

\* a tools/call-status request reaches its handler
InvokeCallStatus(server, args) ==
    LET done == callStatusHandler(server, args)
    IN  /\ invocation' = [server |-> server, tool |-> "call-status",
                          args |-> args, reply |-> NoReply]
        /\ outcome' = done.out
        /\ adapterCalls' = done.calls
        /\ providerRequests' = done.requests
        /\ UNCHANGED <<tokenStore, recordings, providerCalls, streamVars, transcribeVars>>

\* the provider moves a call on: queued, in-progress, completed; it reports
\* duration, price and end time from completion on
ProviderProgress(sid) ==
    /\ providerCalls[sid].status \in {"queued", "in-progress"}
    /\ providerCalls' = [providerCalls EXCEPT ![sid] =
          IF @.status = "queued"
          THEN [@ EXCEPT !.status = "in-progress", !.startTime = "t1"]
          ELSE [@ EXCEPT !.status = "completed", !.duration = "42",
                         !.price = "-0.01", !.endTime = "t2"]]
    /\ UNCHANGED <<tokenStore, recordings, invocation, outcome, adapterCalls,
                   providerRequests, streamVars, transcribeVars>>

\* a tools/validate request reaches its handler
InvokeValidate(server, args) ==
    LET done == validateHandler(server, args)
    IN  /\ invocation' = [server |-> server, tool |-> "validate",
                          args |-> args, reply |-> NoReply]
        /\ outcome' = done.out
        /\ adapterCalls' = done.calls
        /\ providerRequests' = <<>>
        /\ UNCHANGED <<tokenStore, recordings, providerCalls, streamVars, transcribeVars>>

\* a tools/record request reaches its handler
InvokeRecord(server, args, reply) ==
    LET done == recordHandler(server, args, reply)
    IN  /\ invocation' = [server |-> server, tool |-> "record", args |-> args,
                          reply |-> reply]
        /\ outcome' = done.out
        /\ adapterCalls' = done.calls
        /\ providerRequests' = done.requests
        /\ recordings' = done.recordings
        /\ UNCHANGED <<tokenStore, providerCalls, streamVars, transcribeVars>>

\* a tools/summarize request reaches its handler
InvokeSummarize(server, args) ==
    LET done == summarizeHandler(server, args)
    IN  /\ invocation' = [server |-> server, tool |-> "summarize",
                          args |-> args, reply |-> NoReply]
        /\ outcome' = done.out
        /\ adapterCalls' = done.calls
        /\ providerRequests' = <<>>
        /\ UNCHANGED <<tokenStore, recordings, providerCalls, streamVars, transcribeVars>>

\* a tools/transcribe request reaches its handler; a stream it starts is
\* started by processAudioStream as in ProcessAudioStream
InvokeTranscribe(server, args, reply) ==
    LET done == transcribeHandler(server, args, reply)
        s == done.stream
    IN  /\ s # Undefined => HandlesReturned < MaxHandles
        /\ done.batch # Undefined => Len(batches) < MaxBatches
        /\ invocation' = [server |-> server, tool |-> "transcribe",
                          args |-> args, reply |-> reply]
        /\ outcome' = done.out
        /\ adapterCalls' = done.calls
        /\ providerRequests' = done.requests
        /\ IF s # Undefined
           THEN /\ audioBuffers' = [audioBuffers EXCEPT ![s] = EmptyBuffer]
                /\ passes' = Detach(passes, s)
                /\ streamHandlers' = streamHandlers \cup {s}
                /\ handles' = [handles EXCEPT
                                   ![s] = Append(@, done.calls[1].options.language)]
                /\ activeStreams' = activeStreams \cup {s}
           ELSE UNCHANGED <<audioBuffers, passes, streamHandlers, handles,
                            activeStreams>>
        /\ batches' = IF done.batch # Undefined
                      THEN Append(batches, done.batch)
                      ELSE batches
        /\ UNCHANGED <<sockState, connections, framesIn, fed, invocations,
                       writeFailed, emitted, scratchLeft, tokenStore,
                       recordings, providerCalls, audioProcessor>>
        /\ Quiet

\* ------------------------------------------------------------------------
\* Specifications
\* ------------------------------------------------------------------------
TranscribeInit ==
    /\ activeStreams = {}
    /\ batches = <<>>

\* the services as tools.ts constructs them: with a socket server
Init == StreamInit /\ ToolInit /\ TranscribeInit /\ audioProcessor = TRUE

\* the transcription service in either configuration
InitEither ==
    StreamInit /\ ToolInit /\ TranscribeInit /\ audioProcessor \in BOOLEAN

StreamNext ==
    \/ \E c \in ConnIds : Connect(c)
    \/ \E c \in ConnIds : BeginClose(c)
    \/ \E c \in ConnIds : CloseEvent(c)
    \/ \E c \in ConnIds : ErrorEvent(c)
    \/ \E s \in Streams, l \in Languages : ProcessAudioStream(s, l)
    \/ \E c \in ConnIds, s \in Streams, n \in PayloadChars : MediaFrame(c, s, n)
    \/ \E p \in PassIds : PassWriteDone(p)
    \/ \E p \in PassIds : PassWriteFail(p)
    \/ \E p \in PassIds : PassTranscribeDone(p)
    \/ \E p \in PassIds : PassUnlinkDone(p)
    \/ \E s \in Streams, i \in 1..MaxHandles : Stop(s, i)

\* frames arriving for started streams on open sockets, and the passes
\* they start
FrameNext ==
    \/ \E c \in ConnIds : Connect(c)
    \/ \E s \in Streams, l \in Languages : ProcessAudioStream(s, l)
    \/ \E c \in ConnIds, s \in Streams, n \in PayloadChars : MediaFrame(c, s, n)
    \/ \E c \in ConnIds, s \in Streams, n \in PayloadChars : MarkFrame(c, s, n)
    \/ \E p \in PassIds : PassWriteDone(p)
    \/ \E p \in PassIds : PassWritePartial(p)
    \/ \E p \in PassIds : PassTranscribeDone(p)
    \/ \E p \in PassIds : PassUnlinkDone(p)

SummarizeNext ==
    \E sv \in Servers, a \in SummarizeArgs : InvokeSummarize(sv, a)

\* the registry's own events and calls, with handlers coming and going
RegistryNext ==
    \/ \E c \in ConnIds : Connect(c)
    \/ \E c \in ConnIds : BeginClose(c)
    \/ \E c \in ConnIds : CloseEvent(c)
    \/ \E c \in ConnIds : ErrorEvent(c)
    \/ \E s \in Streams, l \in Languages : ProcessAudioStream(s, l)
    \/ \E s \in Streams, i \in 1..MaxHandles : Stop(s, i)
    \/ \E c \in ConnIds, m \in Methods, id \in Ids : ProtocolFrame(c, m, id)
    \/ \E c \in ConnIds : BadFrame(c)
    \/ \E s \in Streams, ty \in {"transcription", "error"} : Broadcast(s, ty)

CallStatusNext ==
    \/ \E sv \in Servers, a \in CallArgs, r \in ProviderReplies :
           InvokeCall(sv, a, r)
    \/ \E sid \in CallSids : ProviderProgress(sid)
    \/ \E sv \in Servers, a \in CallStatusArgs : InvokeCallStatus(sv, a)

ToolNext ==
    \/ \E t \in Tokens, u \in Users : AddTokenForTesting(t, u)
    \/ \E sv \in Servers, a \in CallArgs, r \in ProviderReplies :
           InvokeCall(sv, a, r)
    \/ \E sv \in Servers, a \in ValidateArgs : InvokeValidate(sv, a)
    \/ \E sv \in Servers, a \in RecordArgs, r \in RecordingReplies :
           InvokeRecord(sv, a, r)

TranscribeNext ==
    \/ \E sv \in Servers, a \in TranscribeArgs, r \in DownloadReplies :
           InvokeTranscribe(sv, a, r)
    \/ \E s \in Streams, i \in 1..MaxHandles : Stop(s, i)

RecordNext ==
    \E sv \in Servers, a \in AnyRecordArgs, r \in RecordingReplies :
        InvokeRecord(sv, a, r)

Next ==
    \/ RecordNext \/ FrameNext
    \/ StreamNext \/ RegistryNext \/ ToolNext \/ SummarizeNext
    \/ CallStatusNext \/ TranscribeNext

\* the socket layer and the audio accumulator on their own
StreamSpec == Init /\ [][StreamNext]_vars
\* media and mark frames of started streams
FrameSpec == Init /\ [][FrameNext]_vars
\* the connection registry on its own
RegistrySpec == Init /\ [][RegistryNext]_vars
\* the tool dispatcher with its services on their own
ToolSpec == Init /\ [][ToolNext]_vars
\* placing calls and asking for their status, with the provider moving on
CallStatusSpec == Init /\ [][CallStatusNext]_vars
\* the summarize tool on its own
SummarizeSpec == Init /\ [][SummarizeNext]_vars
\* the transcribe tool, with and without a socket server
TranscribeSpec == InitEither /\ [][TranscribeNext]_vars
\* the record tool on its own, with actions outside the declared enum
RecordSpec == Init /\ [][RecordNext]_vars
Spec == Init /\ [][Next]_vars

\* ------------------------------------------------------------------------
\* Claims about the Connection Registry and the Audio Accumulator
\* ------------------------------------------------------------------------
AccumulationActive(s) == s \in streamHandlers /\ audioBuffers[s].has
CloseHandled(c) == sockState[c] # "closed" /\ sockState'[c] = "closed"
PassStarts(p) == passes[p].pc = "idle" /\ passes'[p].pc # "idle"
PassInFlight(s) ==
    \E p \in PassIds : passes[p].pc # "idle" /\ passes[p].streamSid = s
BytesPerSecond == sampleRate * channels * (bitDepth \div 8)

\* C1: when the 'close' event of a socket is handled while audio
\* accumulation is active for a stream, no handler for that stream remains
\* in the handler table afterwards.
C1_CloseRemovesStreamHandler ==
    [][\A c \in ConnIds : CloseHandled(c) =>
          \A s \in Streams : AccumulationActive(s) => s \notin streamHandlers'
      ]_vars

\* C2: a transcription pass that starts after a socket close reads no audio
\* that was buffered before that close: every chunk of its data was appended
\* after the last 'close' event.
C2_NoPassReadsPreCloseAudio ==
    [][\A p \in PassIds : PassStarts(p) =>
          \A k \in 1..Len(passes'[p].data) :
              passes'[p].data[k].epoch = ClosedSoFar'
      ]_vars

\* C3: once three one-second frames (3 seconds of 8 kHz / 16-bit / mono
\* audio) have been fed for a stream that was started once and not stopped,
\* no scratch write was rejected and no pass is in flight, exactly one
\* transcribeAudio call was made, by the pass that began at the frame that
\* brought the fed audio to 2.0 s; and the stream's buffer is empty right
\* after a pass of that stream has got its transcription.
FedThreeSeconds(s) ==
    /\ Len(handles[s]) = 1
    /\ s \in streamHandlers
    /\ framesIn = 3
    /\ fed[s] = 3 * BytesPerSecond
    /\ s \notin writeFailed

C3_OneInvocationForThreeSeconds ==
    /\ [](\A s \in Streams :
            (FedThreeSeconds(s) /\ ~PassInFlight(s))
            => invocations[s] = <<ThresholdSeconds * BytesPerSecond>>)
    /\ [][\A p \in PassIds :
            ( /\ passes[p].pc = "transcribe"
              /\ passes'[p].pc = "unlink"
              /\ Len(handles[passes[p].streamSid]) = 1
              /\ passes[p].streamSid \in streamHandlers )
            => audioBuffers'[passes[p].streamSid].chunks = <<>>
        ]_vars

\* C4: stop() unregisters the stream handler, starts exactly one pass over
\* the buffered audio when the buffer is non-empty and none when it is
\* empty, and leaves no buffer for the stream.
C4_StopFlushesAndDiscards ==
    [][\A s \in Streams, i \in 1..MaxHandles : Stop(s, i) =>
          LET remaining == audioBuffers[s].chunks
              started == {p \in PassIds : PassStarts(p)}
          IN  /\ s \notin streamHandlers'
              /\ ~audioBuffers'[s].has
              /\ IF Len(remaining) > 0
                 THEN /\ Cardinality(started) = 1
                      /\ \A p \in started :
                            /\ passes'[p].streamSid = s
                            /\ passes'[p].data = remaining
                 ELSE started = {}
      ]_vars

\* ------------------------------------------------------------------------
\* Claims about the Tool Dispatcher and its services
\* ------------------------------------------------------------------------
MissingRequired ==
    /\ invocation.tool # "none"
    /\ ~(Required(invocation.tool) \subseteq DOMAIN invocation.args)

\* C5: for every tool, an invocation whose arguments omit a field that the
\* tool's schema requires fails with an InvalidArguments error, and neither
\* the tool's service nor the provider is called on its behalf.
C5_MissingRequiredIsRejected ==
    MissingRequired =>
        /\ outcome.threw
        /\ outcome.error = <<"InvalidArguments">>
        /\ adapterCalls = <<>>
        /\ providerRequests = <<>>

\* C6: whenever the validate tool is invoked with a token that the token
\* store does not hold, whatever insertions and validations came before, it
\* does not throw and returns isValid = false with the message "Invalid or
\* expired token".
C6_UnknownTokenIsInvalid ==
    [][\A sv \in Servers, a \in ValidateArgs :
          ( /\ InvokeValidate(sv, a)
            /\ Has(a, "token")
            /\ tokenStore[a.token] = NoUser )
          => /\ ~outcome'.threw
             /\ outcome'.result.isValid = FALSE
             /\ Has(outcome'.result, "message")
             /\ outcome'.result.message = "Invalid or expired token"]_vars

\* a text with nothing but separators in it
Blank(text) == \A k \in 1..Len(text) : text[k] = " "

\* C7: summarize with blank text fails with an EmptyInput error whatever the
\* style and maxLength are, both at the tool and at the service, and no
\* summary is produced.
C7_BlankTextIsEmptyInput ==
    ( /\ invocation.tool = "summarize"
      /\ Has(invocation.args, "text")
      /\ Blank(invocation.args.text) )
    => /\ outcome.threw
       /\ outcome.error = <<"EmptyInput">>
       /\ \A k \in 1..Len(adapterCalls) : adapterCalls[k].out.threw

\* C8: every call of the summarization service with maxLength <= 0 fails with
\* an InvalidLength error, whatever the text and style are, and produces no
\* summary.
C8_NonPositiveMaxLengthIsInvalidLength ==
    \A k \in 1..Len(adapterCalls) :
        ( /\ adapterCalls[k].method = "summarize"
          /\ Has(adapterCalls[k].options, "text")
          /\ GetOr(adapterCalls[k].options, "maxLength", 150) <= 0 )
        => /\ adapterCalls[k].out.threw
           /\ adapterCalls[k].out.error = <<"InvalidLength">>
           /\ outcome.threw

\* C9: when the record tool is invoked with action "stop" for a call for
\* which the provider lists no recording, the invocation fails with the
\* NoActiveRecording error (the adapter's "No active recordings found for
\* call <id>") and no recordings.update request goes to the provider.
C9_StopWithoutRecordingFails ==
    [][\A sv \in Servers, a \in RecordArgs, r \in RecordingReplies :
          ( /\ InvokeRecord(sv, a, r)
            /\ r.ok
            /\ Has(a, "callId") /\ Has(a, "callSid") /\ a.callSid = a.callId
            /\ Has(a, "action") /\ a.action = "stop"
            /\ recordings[a.callId] = <<>> )
          => /\ outcome'.threw
             /\ \E k \in 1..Len(outcome'.error) :
                    outcome'.error[k] = "No active recordings found for call"
             /\ \A k \in 1..Len(providerRequests') :
                    providerRequests'[k].api # "recordings.update"]_vars

\* C10: for every valid call invocation (required arguments present, the
\* provider accepts the call) the result carries, as callId, the identifier
\* the provider returned, with the provider's status, to and from and the
\* message "Call initiated successfully".
C10_CallIdIsProviderSid ==
    ( /\ invocation.tool = "call"
      /\ Required("call") \subseteq DOMAIN invocation.args
      /\ invocation.reply.ok )
    => /\ ~outcome.threw
       /\ Has(outcome.result, "callId")
       /\ outcome.result.callId = invocation.reply.sid
       /\ outcome.result.status = "queued"
       /\ outcome.result.to = invocation.args.to
       /\ outcome.result.from = fromNumber
       /\ Has(outcome.result, "message")
       /\ outcome.result.message = "Call initiated successfully"

Unfinished(sid) == providerCalls[sid].status \in {"queued", "in-progress"}

\* C11: a call-status invocation for an unfinished call changes no state,
\* returns the provider's status with duration, price and end time null, and
\* returns the same again when it is repeated with the provider unmoved.
C11_CallStatusIsIdempotentAndNull ==
    [][\A sv \in Servers, a \in CallStatusArgs :
          ( /\ InvokeCallStatus(sv, a)
            /\ Has(a, "callId") /\ Has(a, "callSid") /\ a.callSid = a.callId
            /\ Unfinished(a.callId) )
          => /\ providerCalls' = providerCalls
             /\ recordings' = recordings
             /\ ~outcome'.threw
             /\ outcome'.result.status = providerCalls[a.callId].status
             /\ outcome'.result.duration = Null
             /\ outcome'.result.price = Null
             /\ outcome'.result.endTime = Null
             /\ ( /\ invocation' = invocation
                  /\ ~outcome.threw
                  /\ outcome.result.status = providerCalls[a.callId].status )
                => outcome' = outcome]_vars

\* ------------------------------------------------------------------------
\* Claims about the messages of the Connection Registry
\* ------------------------------------------------------------------------
ConnectionClosed(c) ==
    {[handler |-> s, connectionId |-> c,
      message |-> WebSocketMessage("error", "Connection closed", Undefined, s)] :
        s \in streamHandlers}

\* C12: on a socket close event and on a socket error event alike, the
\* connection leaves the connection table and every stream handler that is
\* registered is called once with an error message whose reason is
\* "Connection closed".
C12_CloseAndErrorNotifyHandlers ==
    [][\A c \in ConnIds : (CloseEvent(c) \/ ErrorEvent(c)) =>
          /\ c \notin connections'
          /\ notified' = ConnectionClosed(c)]_vars

\* C13: a protocol-envelope message with a tools/ method that has no handler
\* gets exactly one reply on its own connection, the error "No handler for
\* method", and the reply carries the request's id whenever the request has
\* one, whatever the id is (the number 0 included).
C13_NoHandlerReplyCarriesId ==
    [][\A c \in ConnIds, m \in Methods, id \in Ids :
          ( /\ ProtocolFrame(c, m, id)
            /\ StartsWithTools(m)
            /\ m \notin streamHandlers )
          => sent' = {[to |-> c,
                       message |-> WebSocketMessage("error", NoHandlerError(m),
                                                    id, Undefined)]}]_vars

\* C14: a frame that cannot be parsed is answered with one error message on
\* the connection it came from: no other connection is sent anything, no
\* stream handler is called, the connection stays in the table and nothing
\* else changes.
C14_ParseFailureRepliesToOriginOnly ==
    [][\A c \in ConnIds : BadFrame(c) =>
          /\ \E m \in sent' : m.to = c /\ m.message.type = "error"
          /\ \A m \in sent' : m.to = c
          /\ Cardinality(sent') = 1
          /\ notified' = {}
          /\ c \in connections'
          /\ connections' = connections
          /\ audioBuffers' = audioBuffers
          /\ passes' = passes]_vars

\* a parse failure was answered while another socket was open and a stream
\* handler was registered
C14_Witness ==
    /\ \E m \in sent : m.message.error = "Invalid message format"
    /\ \E c, d \in ConnIds :
          c # d /\ sockState[c] = "open" /\ sockState[d] = "open"
    /\ streamHandlers # {}

\* C15: broadcast(streamSid, message) hands the message, tagged with
\* streamSid, to every socket that is open, whichever stream it has carried
\* frames for, and to no socket that is not open.
C15_BroadcastReachesEveryOpenSocket ==
    [][\A s \in Streams, ty \in {"transcription", "error"} :
          Broadcast(s, ty) =>
              /\ \A c \in ConnIds :
                    (\E m \in sent' : m.to = c) <=> sockState[c] = "open"
              /\ \A m \in sent' : /\ m.message.streamSid = s
                                  /\ m.message.type = ty]_vars

\* a broadcast reached two open sockets; another reached the one open socket
\* while a closing one was still in the table
C15_Witness ==
    /\ \A m \in sent : m.message.type = "transcription"
    /\ \/ Cardinality(sent) = 2
       \/ /\ Cardinality(sent) = 1
          /\ \E d \in ConnIds : sockState[d] = "closing"

\* ------------------------------------------------------------------------
\* More claims about the Audio Accumulator
\* ------------------------------------------------------------------------
PassCompletes(p) == passes[p].pc = "transcribe" /\ passes'[p].pc = "unlink"

\* C16: every transcription pass that completes, whether the duration
\* threshold or stop() started it, hands its result to the transcription
\* callback of the stream's handle.
C16_CompletedPassReachesCallback ==
    [][\A p \in PassIds :
          (PassCompletes(p) /\ Len(handles[passes[p].streamSid]) > 0)
          => emitted'[passes[p].streamSid]
                 = emitted[passes[p].streamSid] + 1]_vars

\* C19: a media frame that is appended starts a transcription pass exactly
\* when the bytes then buffered for the stream, divided by sampleRate *
\* channels * bytes per sample, amount to at least 2.0 seconds, whatever the
\* sizes of the frames are.
C19_PassStartsAtTwoSecondsOfBytes ==
    [][\A c \in ConnIds, s \in Streams, n \in PayloadChars :
          (MediaFrame(c, s, n) /\ framesIn' = framesIn + 1)
          => ( (\E p \in PassIds : PassStarts(p))
               <=> TotalBytes(audioBuffers'[s].chunks)
                       >= ThresholdSeconds * BytesPerSecond )]_vars

\* C20: a pass that fails (its scratch write is rejected) is not fatal: the
\* stream handler stays registered, the buffer and the sockets are left as
\* they were, and a media frame that arrives for the stream afterwards is
\* appended to its buffer.
C20_FailedPassIsNotFatal ==
    /\ [][\A p \in PassIds : PassWriteFail(p) =>
             /\ streamHandlers' = streamHandlers
             /\ audioBuffers' = audioBuffers
             /\ sockState' = sockState
             /\ \A q \in PassIds \ {p} : passes'[q] = passes[q]]_vars
    /\ [][\A c \in ConnIds, s \in Streams, n \in PayloadChars \ {0} :
             (MediaFrame(c, s, n) /\ s \in writeFailed /\ s \in streamHandlers)
             => /\ audioBuffers'[s].has
                /\ Len(audioBuffers'[s].chunks) = Len(audioBuffers[s].chunks) + 1
                /\ audioBuffers'[s].chunks[Len(audioBuffers'[s].chunks)].bytes
                       = Base64ByteLength(n)]_vars

\* a pass has just failed (its error message went out) with the stream's
\* handler registered and the audio it read still buffered
C20_Witness ==
    \E s \in Streams :
        /\ s \in writeFailed
        /\ s \in streamHandlers
        /\ Len(audioBuffers[s].chunks) >= 2
        /\ \E m \in sent : m.message.error = "EACCES" /\ m.message.streamSid = s

\* ------------------------------------------------------------------------
\* Claims about the errors of the Tool Dispatcher
\* ------------------------------------------------------------------------
\* the words of the phrases the catch blocks of the handlers put before the
\* underlying message (`Failed to make call: ${error.message}`)
Words(phrase) ==
    CASE phrase = "Failed to make call" -> <<"Failed", "to", "make", "call">>
      [] phrase = "Failed to get call status" ->
             <<"Failed", "to", "get", "call", "status">>
      [] phrase = "Failed to record call" ->
             <<"Failed", "to", "record", "call">>
      [] phrase = "Failed to summarize text" ->
             <<"Failed", "to", "summarize", "text">>
      [] OTHER -> <<phrase>>

\* the error has the text among the words of its parts
Carries(error, text) ==
    \E k \in 1..Len(error) :
        \E w \in 1..Len(Words(error[k])) : Words(error[k])[w] = text

\* the adapter call of the last invocation failed
AdapterFailed ==
    \E k \in 1..Len(adapterCalls) : adapterCalls[k].out.threw

\* C17: whenever the provider adapter fails inside a tool handler, the
\* handler ends with an error that carries the name of the tool and the
\* message of the adapter's error.
C17_HandlerFailureCarriesToolAndMessage ==
    AdapterFailed =>
        /\ outcome.threw
        /\ Carries(outcome.error, invocation.tool)
        /\ \A k \in 1..Len(adapterCalls) :
               adapterCalls[k].out.threw =>
                   \A j \in 1..Len(adapterCalls[k].out.error) :
                       Carries(outcome.error, adapterCalls[k].out.error[j])

\* the same for the underlying message alone
UnderlyingMessageIsKept ==
    AdapterFailed =>
        /\ outcome.threw
        /\ \A k \in 1..Len(adapterCalls) :
               adapterCalls[k].out.threw =>
                   \A j \in 1..Len(adapterCalls[k].out.error) :
                       Carries(outcome.error, adapterCalls[k].out.error[j])

\* ------------------------------------------------------------------------
\* Claims about the transcribe tool
\* ------------------------------------------------------------------------
\* the request names no call, under either name, and no audio URL
NeitherGiven(args) ==
    /\ ~Has(args, "callId")
    /\ ~Has(args, "callSid")
    /\ ~Has(args, "audioUrl")

\* the step starts no audio stream and no batch transcription
NothingStarted ==
    /\ streamHandlers' = streamHandlers
    /\ audioBuffers' = audioBuffers
    /\ handles' = handles
    /\ activeStreams' = activeStreams
    /\ batches' = batches
    /\ providerRequests' = <<>>

\* C18: a transcribe request with neither a call identifier nor an audio URL
\* fails with an error, with and without a socket server, and starts no
\* audio stream and no batch transcription; the same holds of every call of
\* the service's transcribe with neither option.
C18_TranscribeNeedsCallIdOrAudioUrl ==
    [][\A sv \in Servers, r \in DownloadReplies :
       \A a \in {x \in TranscribeArgs :
                    ~Has(x, "callId") /\ ~Has(x, "audioUrl")} :
          InvokeTranscribe(sv, a, r) =>
              /\ NeitherGiven(a) => outcome'.threw /\ NothingStarted
              /\ \A k \in 1..Len(adapterCalls') :
                     ( /\ Get(adapterCalls'[k].options, "callId") = Undefined
                       /\ Get(adapterCalls'[k].options, "audioUrl")
                              = Undefined )
                     => /\ adapterCalls'[k].out.threw
                        /\ outcome'.threw
                        /\ NothingStarted]_vars

\* a request with neither has just failed, in a service that has a socket
\* server and has started a stream and a batch transcription before
C18_Witness ==
    /\ audioProcessor
    /\ activeStreams # {}
    /\ batches # <<>>
    /\ invocation.tool = "transcribe"
    /\ NeitherGiven(invocation.args)
    /\ outcome.threw

\* the same in a service without a socket server
C18_WithoutSocketServer ==
    /\ ~audioProcessor
    /\ batches # <<>>
    /\ invocation.tool = "transcribe"
    /\ NeitherGiven(invocation.args)
    /\ outcome.threw

\* ------------------------------------------------------------------------
\* Claims about the order and the fate of buffered audio
\* ------------------------------------------------------------------------
\* the chunks are in the order in which their frames arrived
InOrder(chunks) ==
    \A j, k \in 1..Len(chunks) : j < k => chunks[j].seq < chunks[k].seq

\* the step appends a media frame to the buffer of s
Appends(s) ==
    /\ framesIn' = framesIn + 1
    /\ fed'[s] # fed[s]

\* C21: media frames are appended to the buffer of their call in arrival
\* order, so every buffer and the data of every pass are in arrival order,
\* and the data handed to a pass is the whole buffer as it is when the pass
\* starts, also while an earlier pass of the stream awaits the backend.
C21_FramesAreHandledInArrivalOrder ==
    /\ [](\A s \in Streams : InOrder(audioBuffers[s].chunks))
    /\ [](\A p \in PassIds : passes[p].pc # "idle" => InOrder(passes[p].data))
    /\ [][\A s \in Streams : Appends(s) =>
            /\ Len(audioBuffers'[s].chunks) >= 1
            /\ audioBuffers'[s].chunks[Len(audioBuffers'[s].chunks)].seq
                   = framesIn'
            /\ \A k \in 1..(Len(audioBuffers'[s].chunks) - 1) :
                   /\ k <= Len(audioBuffers[s].chunks)
                   /\ audioBuffers'[s].chunks[k] = audioBuffers[s].chunks[k]
         ]_vars
    /\ [][\A p \in PassIds : PassStarts(p) =>
            passes'[p].data = audioBuffers'[passes'[p].streamSid].chunks
         ]_vars

\* a pass with three frames was started while an earlier pass of the same
\* stream was awaiting the backend
C21_Witness ==
    \E p, q \in PassIds :
        /\ p # q
        /\ passes[p].pc = "transcribe"
        /\ passes[q].pc = "write"
        /\ passes[p].streamSid = passes[q].streamSid
        /\ Len(passes[p].data) = 2
        /\ Len(passes[q].data) = 3

\* ------------------------------------------------------------------------
\* Claims about enum-typed arguments
\* ------------------------------------------------------------------------
\* C22: a record invocation whose action is outside {start, stop} fails with
\* InvalidArguments, sends no request to the provider and leaves every
\* recording as it is; in particular it stops no recording.
C22_UnknownEnumValueIsRejected ==
    [][\A sv \in Servers, r \in RecordingReplies :
       \A a \in {x \in AnyRecordArgs :
                    Has(x, "action") /\ x.action \notin {"start", "stop"}} :
          InvokeRecord(sv, a, r) =>
              /\ outcome'.threw
              /\ outcome'.error = <<"InvalidArguments">>
              /\ providerRequests' = <<>>
              /\ recordings' = recordings]_vars

\* ------------------------------------------------------------------------
\* Claims about mark frames
\* ------------------------------------------------------------------------
\* C23: a mark frame leaves every audio buffer unchanged and starts no
\* transcription pass, whatever its payload holds.
C23_MarkFrameIsOnlyLogged ==
    [][\A c \in ConnIds, s \in Streams, n \in PayloadChars :
          MarkFrame(c, s, n) =>
              /\ audioBuffers' = audioBuffers
              /\ passes' = passes
              /\ invocations' = invocations
              /\ fed' = fed]_vars

\* a mark frame has just been handled for a stream with buffered audio that
\* one more second of audio would have brought to a pass
C23_Witness ==
    /\ marked \in Streams
    /\ marked \in streamHandlers
    /\ Len(audioBuffers[marked].chunks) = 1
    /\ audioBuffers[marked].chunks[1].bytes = BytesPerSecond
    /\ ~PassInFlight(marked)

\* ------------------------------------------------------------------------
\* Claims about streams side by side
\* ------------------------------------------------------------------------
\* the step leaves the buffer and the handler registration of every stream
\* other than s as they are
OthersUntouched(s) ==
    \A t \in Streams \ {s} :
        /\ audioBuffers'[t] = audioBuffers[t]
        /\ (t \in streamHandlers') = (t \in streamHandlers)

\* C24: handling a media frame of a stream, every step of a transcription
\* pass of a stream and stop() of a handle of a stream leave the buffer and
\* the handler registration of every other stream unchanged.
C24_StreamsAreIndependent ==
    [][/\ \A c \in ConnIds, s \in Streams, n \in PayloadChars :
             MediaFrame(c, s, n) => OthersUntouched(s)
       /\ \A p \in PassIds :
             ( \/ PassWriteDone(p) \/ PassWriteFail(p)
               \/ PassTranscribeDone(p) \/ PassUnlinkDone(p) )
             => OthersUntouched(passes[p].streamSid)
       /\ \A s \in Streams, i \in 1..MaxHandles :
             Stop(s, i) => OthersUntouched(s)]_vars

\* a pass of one stream has just emptied its buffer while another stream
\* with a handler has audio buffered
C24_Witness ==
    \E p \in PassIds, t \in Streams :
        /\ passes[p].pc = "unlink"
        /\ passes[p].streamSid # t
        /\ passes[p].streamSid \in streamHandlers
        /\ audioBuffers[passes[p].streamSid].has
        /\ audioBuffers[passes[p].streamSid].chunks = <<>>
        /\ t \in streamHandlers
        /\ Len(audioBuffers[t].chunks) > 0

\* ------------------------------------------------------------------------
\* Claims about passes in flight
\* ------------------------------------------------------------------------
\* the pass awaits the scratch write or the backend
Awaiting(q) == passes[q].pc \in {"write", "transcribe"}

\* C25: no transcription pass starts for a stream while another pass of
\* that stream is awaiting the scratch write or the backend.
C25_OnePassInFlightPerStream ==
    [][\A p \in PassIds : PassStarts(p) =>
          ~\E q \in PassIds \ {p} :
              /\ Awaiting(q)
              /\ passes[q].streamSid = passes'[p].streamSid]_vars

\* the chunk is part of the data of a pass that has started and not ended
HandedToAPass(chunk) ==
    \E q \in PassIds :
        /\ passes[q].pc # "idle"
        /\ \E k \in 1..Len(passes[q].data) : passes[q].data[k] = chunk

\* C26: while a stream is active, every chunk that a step of a pass removes
\* from the stream's buffer is part of the data handed to a transcription
\* pass (steps that start the stream anew are the subject of C27).
C26_NoBufferedAudioIsLost ==
    [][\A s \in Streams :
          ( /\ AccumulationActive(s)
            /\ handles' = handles
            /\ s \in streamHandlers'
            /\ audioBuffers'[s].has
            /\ audioBuffers'[s].chunks = <<>> )
          => \A k \in 1..Len(audioBuffers[s].chunks) :
                 HandedToAPass(audioBuffers[s].chunks[k])]_vars

\* ------------------------------------------------------------------------
\* Claims about a stream that is started twice
\* ------------------------------------------------------------------------
\* C27: a second processAudioStream for a stream keeps the audio already
\* buffered for it, and stop() of an earlier handle leaves the handler and
\* the buffer that the latest processAudioStream installed.
C27_SecondStartKeepsAudioAndHandler ==
    /\ [][\A s \in Streams, l \in Languages :
            ( /\ ProcessAudioStream(s, l)
              /\ Len(handles[s]) >= 1
              /\ audioBuffers[s].has )
            => audioBuffers'[s].chunks = audioBuffers[s].chunks]_vars
    /\ [][\A s \in Streams, i \in 1..MaxHandles :
            ( /\ Stop(s, i)
              /\ i < Len(handles[s])
              /\ AccumulationActive(s) )
            => /\ s \in streamHandlers'
               /\ audioBuffers'[s].has]_vars


\* ------------------------------------------------------------------------
\* Claims about the life of a connection
\* ------------------------------------------------------------------------
\* the connection was accepted and has left the connection table
Gone(c) == sockState[c] # "none" /\ c \notin connections

\* the step passes no message for c to ws.send
NothingSentTo(c) == \A m \in sent' : m.to # c

\* C28: the handling of a connection's close or error event takes it out of
\* the connection table; a connection that has left the table never enters
\* it again and is sent nothing; and a socket that has left OPEN is never
\* OPEN again.
C28_ClosedConnectionStaysClosed ==
    /\ [][\A c \in ConnIds : (CloseEvent(c) \/ ErrorEvent(c)) =>
            c \notin connections' /\ NothingSentTo(c)]_vars
    /\ [][\A c \in ConnIds : Gone(c) =>
            c \notin connections' /\ NothingSentTo(c)]_vars
    /\ [][\A c \in ConnIds :
            sockState[c] \in {"closing", "closed"} => sockState'[c] # "open"
         ]_vars

\* after the close of one connection a message has been sent, to the other
\* connection only
C28_Witness ==
    \E c, d \in ConnIds :
        /\ sockState[c] = "closed"
        /\ c \notin connections
        /\ d \in connections
        /\ sent # {}
        /\ \A m \in sent : m.to = d

\* ------------------------------------------------------------------------
\* Claims about scratch files
\* ------------------------------------------------------------------------
\* C29: when no pass is in flight, no scratch file of an earlier pass
\* remains.
C29_NoScratchFileOutlivesItsPass ==
    (\A p \in PassIds : passes[p].pc = "idle") => scratchLeft = {}

\* ------------------------------------------------------------------------
\* Claims about the language of a pass
\* ------------------------------------------------------------------------
\* a language that was passed to processAudioStream for the stream
LanguageOf(s, language) ==
    \E i \in 1..Len(handles[s]) : handles[s][i] = language

\* C30: every pass that calls the transcription backend calls it with the
\* language that was passed to processAudioStream for its stream.
C30_PassUsesTheLanguageOfItsStream ==
    [][\A p \in PassIds :
          (passes[p].pc = "write" /\ passes'[p].pc = "transcribe")
              => LanguageOf(passes[p].streamSid, passes[p].language)]_vars
====
